---------------------------- MODULE Spec2Model ----------------------------
(***************************************************************************)
(* A model of src/src/nav_vec3.rs: the NavVec3 value type and its          *)
(* geometric predicates (ray/plane, ray/line, ray/triangle, plane/plane    *)
(* and triangle/triangle intersection).                                    *)
(*                                                                         *)
(* Scalars.  The source computes in IEEE floats.  The model computes in    *)
(* exact rationals <<n, d>> (d > 0, lowest terms), so every +, -, * and /  *)
(* of the source is modelled without rounding; sqrt is exact on squares of *)
(* rationals and rounded down to the grid of the argument's denominator    *)
(* otherwise.  A float division 0/0 yields NaN, which is kept as a value   *)
(* of its own where the source can produce it (project).                   *)
(***************************************************************************)
EXTENDS Integers, Sequences, FiniteSets, TLC

(***************************************************************************)
(* Scalar arithmetic                                                       *)
(***************************************************************************)
RECURSIVE Gcd(_, _)
Gcd(a, b) == IF b = 0 THEN a ELSE Gcd(b, a % b)

IAbs(i) == IF i < 0 THEN -i ELSE i

\* the scalar n/d in lowest terms with a positive denominator
Scalar(n, d) ==
    LET s == IF d < 0 THEN -1 ELSE 1
        g == Gcd(IAbs(n), IAbs(d))
    IN  <<(s * n) \div g, (s * d) \div g>>

Num(i) == <<i, 1>>

NaN == <<0, 0>>

IsNaN(a) == a[2] = 0

\* a + b over the least common denominator
SAdd(a, b) ==
    LET g == Gcd(a[2], b[2])
    IN  Scalar(a[1] * (b[2] \div g) + b[1] * (a[2] \div g), (a[2] \div g) * b[2])

SNeg(a) == <<-a[1], a[2]>>

SSub(a, b) == SAdd(a, SNeg(b))

\* a * b, the common factors cancelled before the products are formed
SMul(a, b) ==
    LET g1 == Gcd(IAbs(a[1]), b[2])
        g2 == Gcd(IAbs(b[1]), a[2])
    IN  Scalar((a[1] \div g1) * (b[1] \div g2), (a[2] \div g2) * (b[2] \div g1))

\* float division: 0/0 is NaN; the source never divides a nonzero by zero
SDiv(a, b) ==
    IF b[1] = 0 THEN NaN
    ELSE SMul(a, IF b[1] < 0 THEN <<-b[2], -b[1]>> ELSE <<b[2], b[1]>>)

SAbs(a) == <<IAbs(a[1]), a[2]>>

\* n1/d1 < n2/d2 for d1, d2 > 0, by integer parts and then the inverted
\* remainders, so that no product is formed
RECURSIVE FracLess(_, _, _, _)
FracLess(n1, d1, n2, d2) ==
    LET q1 == n1 \div d1
        q2 == n2 \div d2
        r1 == n1 % d1
        r2 == n2 % d2
    IN  IF q1 # q2 THEN q1 < q2
        ELSE IF r2 = 0 THEN FALSE
        ELSE IF r1 = 0 THEN TRUE
        ELSE FracLess(d2, r2, d1, r1)

\* float comparisons: every comparison with NaN is false
SLt(a, b) == ~IsNaN(a) /\ ~IsNaN(b) /\ FracLess(a[1], a[2], b[1], b[2])

SLe(a, b) == ~IsNaN(a) /\ ~IsNaN(b) /\ ~FracLess(b[1], b[2], a[1], a[2])

SGt(a, b) == SLt(b, a)

SGe(a, b) == SLe(b, a)

\* f32::max and f32::min return the other operand when one is NaN
SMax(a, b) == IF IsNaN(a) THEN b ELSE IF IsNaN(b) THEN a ELSE IF SLt(a, b) THEN b ELSE a

SMin(a, b) == IF IsNaN(a) THEN b ELSE IF IsNaN(b) THEN a ELSE IF SLt(b, a) THEN b ELSE a

\* f32::signum of a value that is not zero
Signum(a) == IF a[1] < 0 THEN -1 ELSE 1

RECURSIVE ISqrtIn(_, _, _)
ISqrtIn(n, lo, hi) ==
    IF lo >= hi THEN lo
    ELSE LET mid == (lo + hi + 1) \div 2
         IN  IF mid * mid <= n THEN ISqrtIn(n, mid, hi) ELSE ISqrtIn(n, lo, mid - 1)

\* the integer square root, rounded down (46340^2 is the largest square of the integers)
ISqrt(n) == ISqrtIn(n, 0, IF n < 46340 THEN n ELSE 46340)

\* sqrt(n/d) = sqrt(n*d)/d
Sqrt(a) == Scalar(ISqrt(a[1] * a[2]), a[2])

\* crate::ZERO_TRESHOLD, defined in the crate root that nav_vec3.rs imports it
\* from: a small positive scalar, 10^-6
ZERO_TRESHOLD == <<1, 1000000>>

(***************************************************************************)
(* NavVec3                                                                 *)
(***************************************************************************)
new(x, y, z) == <<x, y, z>>

Vec(x, y, z) == new(Num(x), Num(y), Num(z))

Add(a, b) == new(SAdd(a[1], b[1]), SAdd(a[2], b[2]), SAdd(a[3], b[3]))

Sub(a, b) == new(SSub(a[1], b[1]), SSub(a[2], b[2]), SSub(a[3], b[3]))

MulScalar(a, s) == new(SMul(a[1], s), SMul(a[2], s), SMul(a[3], s))

Neg(a) == new(SNeg(a[1]), SNeg(a[2]), SNeg(a[3]))

sqr_magnitude(a) == SAdd(SAdd(SMul(a[1], a[1]), SMul(a[2], a[2])), SMul(a[3], a[3]))

magnitude(a) == Sqrt(sqr_magnitude(a))

cross(a, b) ==
    new(SSub(SMul(a[2], b[3]), SMul(a[3], b[2])),
        SSub(SMul(a[3], b[1]), SMul(a[1], b[3])),
        SSub(SMul(a[1], b[2]), SMul(a[2], b[1])))

dot(a, b) == SAdd(SAdd(SMul(a[1], b[1]), SMul(a[2], b[2])), SMul(a[3], b[3]))

normalize(a) ==
    LET len == magnitude(a)
    IN  IF SLt(len, ZERO_TRESHOLD) THEN Vec(0, 0, 0)
        ELSE new(SDiv(a[1], len), SDiv(a[2], len), SDiv(a[3], len))

abs(a) == new(SAbs(a[1]), SAbs(a[2]), SAbs(a[3]))

project(p, from, to) ==
    LET diff == Sub(to, from)
    IN  SDiv(dot(Sub(p, from), diff), sqr_magnitude(diff))

unproject(from, to, t) ==
    LET diff == Sub(to, from)
    IN  Add(from, new(SMul(diff[1], t), SMul(diff[2], t), SMul(diff[3], t)))

distance_to_plane(p, origin, normal) == dot(normal, Sub(p, origin))

is_above_plane(p, origin, normal) ==
    SGt(distance_to_plane(p, origin, normal), SNeg(ZERO_TRESHOLD))

\* Option<T>: None is the empty sequence, Some(x) the sequence <<x>>
None == <<>>

Some(x) == <<x>>

IsSome(o) == o # <<>>

project_on_plane(p, origin, normal) ==
    LET v == Sub(p, origin)
        n == normalize(normal)
        dt == dot(v, n)
        d == new(SMul(normal[1], dt), SMul(normal[2], dt), SMul(normal[3], dt))
    IN  Sub(p, d)

\* a ray cast that accepts a crossing beyond the end of the segment
raycast_plane_unbounded(from, to, origin, normal) ==
    LET dir == normalize(Sub(to, from))
        denom == dot(normal, dir)
    IN  IF SGt(SAbs(denom), ZERO_TRESHOLD)
        THEN LET t == SDiv(dot(Sub(origin, from), normal), denom)
             IN  IF SGe(t, Num(0)) THEN Some(Add(from, MulScalar(dir, t))) ELSE None
        ELSE None

raycast_plane(from, to, origin, normal) ==
    LET dir == normalize(Sub(to, from))
        denom == dot(normal, dir)
    IN  IF SGt(SAbs(denom), ZERO_TRESHOLD)
        THEN LET t == SDiv(dot(Sub(origin, from), normal), denom)
             IN  IF SGe(t, Num(0)) /\ SLe(t, magnitude(Sub(to, from)))
                 THEN Some(Add(from, MulScalar(dir, t)))
                 ELSE None
        ELSE None

\* a line cast that clamps the parameter from below only
raycast_line_half_clamped(from, to, a, b, normal) ==
    LET hit == raycast_plane(from, to, a, normal)
    IN  IF ~IsSome(hit) THEN None
        ELSE Some(unproject(a, b, SMax(project(hit[1], a, b), Num(0))))

raycast_line(from, to, a, b, normal) ==
    LET hit == raycast_plane(from, to, a, normal)
    IN  IF ~IsSome(hit) THEN None
        ELSE LET t == SMin(SMax(project(hit[1], a, b), Num(0)), Num(1))
             IN  Some(unproject(a, b, t))

raycast_line_exact(from, to, a, b, normal) ==
    LET hit == raycast_plane(from, to, a, normal)
    IN  IF ~IsSome(hit) THEN None
        ELSE LET t == project(hit[1], a, b)
             IN  IF SGe(t, Num(0)) /\ SLe(t, Num(1))
                 THEN Some(unproject(a, b, t))
                 ELSE None

\* a triangle cast that tests the contact against two edges only
raycast_triangle_two_edges(from, to, a, b, c) ==
    LET tab == normalize(Sub(b, a))
        tbc == normalize(Sub(c, b))
        n == normalize(cross(tab, tbc))
        hit == raycast_plane(from, to, a, n)
    IN  IF ~IsSome(hit) THEN None
        ELSE IF /\ is_above_plane(hit[1], a, Neg(cross(tab, n)))
                /\ is_above_plane(hit[1], b, Neg(cross(tbc, n)))
             THEN Some(hit[1])
             ELSE None

raycast_triangle(from, to, a, b, c) ==
    LET tab == normalize(Sub(b, a))
        tbc == normalize(Sub(c, b))
        tca == normalize(Sub(a, c))
        n == normalize(cross(tab, tbc))
        hit == raycast_plane(from, to, a, n)
    IN  IF ~IsSome(hit) THEN None
        ELSE LET contact == hit[1]
                 nab == cross(tab, n)
                 nbc == cross(tbc, n)
                 nca == cross(tca, n)
             IN  IF /\ is_above_plane(contact, a, Neg(nab))
                    /\ is_above_plane(contact, b, Neg(nbc))
                    /\ is_above_plane(contact, c, Neg(nca))
                 THEN Some(contact)
                 ELSE None

\* a selection that does not compare x with z
DominantAxisNoXZ(a) ==
    IF SGt(a[1], a[2]) THEN 1 ELSE IF SGt(a[2], a[3]) THEN 2 ELSE 3

\* the component of u = n1 x n2 that planes_intersection divides by (mc)
DominantAxis(a) ==
    IF SGt(a[1], a[2])
    THEN (IF SGt(a[1], a[3]) THEN 1 ELSE 3)
    ELSE IF SGt(a[2], a[3]) THEN 2 ELSE 3

planes_intersection(p1, n1, p2, n2) ==
    LET u == cross(n1, n2)
    IN  IF SLt(sqr_magnitude(u), ZERO_TRESHOLD) THEN None
        ELSE LET mc == DominantAxis(abs(u))
                 d1 == SNeg(dot(n1, p1))
                 d2 == SNeg(dot(n2, p2))
                 p == CASE mc = 1 ->
                             new(Num(0),
                                 SDiv(SSub(SMul(d2, n1[3]), SMul(d1, n2[3])), u[1]),
                                 SDiv(SSub(SMul(d1, n2[2]), SMul(d2, n1[2])), u[1]))
                        [] mc = 2 ->
                             new(SDiv(SSub(SMul(d1, n2[3]), SMul(d2, n1[3])), u[2]),
                                 Num(0),
                                 SDiv(SSub(SMul(d2, n1[1]), SMul(d1, n2[1])), u[2]))
                        [] mc = 3 ->
                             new(SDiv(SSub(SMul(d2, n1[2]), SMul(d1, n2[2])), u[3]),
                                 SDiv(SSub(SMul(d1, n2[1]), SMul(d2, n1[1])), u[3]),
                                 Num(0))
             IN  Some(<<p, normalize(u)>>)

side(v) == IF SLt(SAbs(v), ZERO_TRESHOLD) THEN 0 ELSE Signum(v)

is_line_between_points(from, to, a, b, normal) ==
    LET n == cross(Sub(to, from), normal)
        sa == side(dot(n, Sub(a, from)))
        sb == side(dot(n, Sub(b, from)))
    IN  sa # sb

does_line_crosses_triangle(from, to, a, b, c) ==
    LET tab == normalize(Sub(b, a))
        tbc == normalize(Sub(c, b))
        tca == normalize(Sub(a, c))
        n == normalize(cross(tab, tbc))
        nab == cross(tab, n)
        nbc == cross(tbc, n)
        nca == cross(tca, n)
    IN  \/ /\ is_above_plane(from, a, Neg(nab))
           /\ is_above_plane(from, b, Neg(nbc))
           /\ is_above_plane(from, c, Neg(nca))
        \/ /\ is_above_plane(to, a, Neg(nab))
           /\ is_above_plane(to, b, Neg(nbc))
           /\ is_above_plane(to, c, Neg(nca))

(***************************************************************************)
(* triangles_intersection.  Its two filter_map passes over three edges run  *)
(* as three tasks each: in order without the feature "parallel", on worker *)
(* threads in any order with it.  A task's result goes to the slot of its  *)
(* edge, and collect reads the slots in the order of the edges.            *)
(***************************************************************************)
NavConnection(i, j) == <<i, j>>

\* the unit normal of a triangle, from its first two edge directions
TriangleNormal(a, b, c) ==
    LET tab == normalize(Sub(b, a))
        tbc == normalize(Sub(c, b))
    IN  normalize(cross(tab, tbc))

\* the three items [(a2, b2), (b2, c2), (c2, a2)] of the first pass
CastEdges(a2, b2, c2) == <<<<a2, b2>>, <<b2, c2>>, <<c2, a2>>>>

\* the closure of the first pass on its i-th item
CastTask(a1, n1, edges, i) == raycast_plane(edges[i][1], edges[i][2], a1, n1)

\* the second pass with each edge tagged as the next one
ClipEdgesShifted(a1, b1, c1) == <<<<a1, b1, 1, 2>>, <<b1, c1, 2, 0>>, <<c1, a1, 0, 1>>>>

\* the three items [(a1, b1, 0, 1), (b1, c1, 1, 2), (c1, a1, 2, 0)] of the second pass
ClipEdges(a1, b1, c1) == <<<<a1, b1, 0, 1>>, <<b1, c1, 1, 2>>, <<c1, a1, 2, 0>>>>

\* the closure of the second pass on its i-th item
ClipTask(sb, se, no, edges, i) ==
    LET p == raycast_line_exact(edges[i][1], edges[i][2], sb, se, no)
    IN  IF IsSome(p) THEN Some(<<p[1], NavConnection(edges[i][3], edges[i][4])>>) ELSE None

\* a collect that takes the results in the order the tasks finished in
CollectInCompletionOrder(slots, finished) ==
    LET kept == SelectSeq([k \in 1 .. Len(finished) |-> slots[finished[k]]], IsSome)
    IN  [k \in 1 .. Len(kept) |-> kept[k][1]]

\* filter_map(..).collect::<Vec<_>>(): the results that are Some, in the order
\* of the items whatever the order the tasks finished in
Collect(slots, finished) ==
    LET kept == SelectSeq(slots, IsSome)
    IN  [k \in 1 .. Len(kept) |-> kept[k][1]]

RECURSIVE DeduplicateFrom(_, _)
DeduplicateFrom(contacts, i) ==
    IF i > Len(contacts) THEN <<>>
    ELSE LET later == \E j \in (i + 1) .. Len(contacts) :
                          SLt(sqr_magnitude(Sub(contacts[i], contacts[j])), ZERO_TRESHOLD)
         IN  (IF later THEN <<>> ELSE <<contacts[i]>>) \o DeduplicateFrom(contacts, i + 1)

\* the 'root loop: a contact is dropped when a later one is within the threshold
Deduplicate(contacts) == DeduplicateFrom(contacts, 1)

\* the clipping direction
ClipDirection(a1, n1, n2) == normalize(project_on_plane(MulScalar(n2, Num(100)), a1, n1))

\* the match on clipped.len(): Some(<<b, e, n>>) or None
Resolve(clipped, sb, se, no, a1, b1, c1, n1) ==
    IF Len(clipped) = 2
    THEN IF SLt(sqr_magnitude(Sub(clipped[2][1], clipped[1][1])), ZERO_TRESHOLD)
         THEN None
         ELSE Some(<<<<clipped[1][1], Some(clipped[1][2])>>,
                     <<clipped[2][1], Some(clipped[2][2])>>, no>>)
    ELSE IF Len(clipped) = 1
    THEN LET p == clipped[1][1]
             conn == clipped[1][2]
             points == <<a1, b1, c1>>
             pb == points[conn[1] + 1]
             pe == points[conn[2] + 1]
             n == normalize(cross(Sub(pe, pb), n1))
             db == distance_to_plane(sb, pb, n)
             de == distance_to_plane(se, pb, n)
         IN  IF SGt(db, de)
             THEN IF SLt(sqr_magnitude(Sub(p, se)), ZERO_TRESHOLD)
                  THEN None
                  ELSE Some(<<<<p, Some(conn)>>, <<se, None>>, no>>)
             ELSE IF SLt(sqr_magnitude(Sub(p, sb)), ZERO_TRESHOLD)
                  THEN None
                  ELSE Some(<<<<sb, None>>, <<p, Some(conn)>>, no>>)
    ELSE Some(<<<<sb, None>>, <<se, None>>, no>>)

\* the final orientation of (b, e, n)
Orient(r) ==
    IF ~IsSome(r) THEN None
    ELSE LET b == r[1][1]
             e == r[1][2]
             n == r[1][3]
         IN  IF SGe(cross(n, Sub(e[1], b[1]))[3], Num(0))
             THEN Some(<<b, e, n>>)
             ELSE Some(<<e, b, n>>)

(***************************************************************************)
(* The inputs of the calls                                                 *)
(***************************************************************************)
\* coordinates of the lattice points run over -MaxCoord .. MaxCoord
MaxCoord == 1

Coords == (-MaxCoord) .. MaxCoord

\* lattice points of the plane y = 0, of the plane z = 0 and of space
PointsXZ == {Vec(x, 0, z) : x \in Coords, z \in Coords}

PointsXY == {Vec(x, y, 0) : x \in Coords, y \in Coords}

PointsXYZ == {Vec(x, y, z) : x \in Coords, y \in Coords, z \in Coords}

PointsX == {Vec(x, 0, 0) : x \in Coords}

PointsZ == {Vec(0, 0, z) : z \in Coords}

\* normals of length 1
UnitNormals ==
    {Vec(0, 0, 1), Vec(0, 0, -1), Vec(1, 0, 0), new(<<3, 5>>, Num(0), <<4, 5>>)}

\* triangle 1 of triangles_intersection: a 3-4-5 triangle in the plane z = h,
\* h in 0 .. MaxLift, in either winding, and one in the plane y = 0
MaxLift == 1

Triangles1 ==
    UNION {{<<Vec(0, 0, h), Vec(4, 0, h), Vec(0, 3, h)>>,
            <<Vec(0, 0, h), Vec(0, 3, h), Vec(4, 0, h)>>} : h \in 0 .. MaxLift}
        \cup {<<Vec(0, 0, 0), Vec(4, 0, 0), Vec(0, 0, 3)>>}

\* triangle 2: triangles across the plane z = 0:
\* in the plane y = 0 (one with a vertex on z = 0), in the plane x = y (two with an
\* edge on the z axis, one with all edges oblique) and in a plane tilted about
\* the x axis
Shapes2 ==
    {<<Vec(0, 0, -2), Vec(3, 0, -2), Vec(0, 0, 2)>>,
     <<Vec(0, 0, 0), Vec(3, 0, 4), Vec(3, 0, -4)>>,
     <<Vec(0, 0, -2), Vec(0, 0, 2), Vec(4, 4, -2)>>,
     <<Vec(0, 0, -2), Vec(0, 0, 2), Vec(4, 4, -6)>>,
     <<Vec(-4, -4, -2), Vec(4, 4, 2), Vec(4, 4, -6)>>,
     <<new(Num(0), Num(0), <<-8, 5>>), new(Num(3), Num(0), <<-8, 5>>),
       new(Num(0), <<12, 5>>, <<8, 5>>)>>}

\* the shapes are moved by (dx, dy, h), dx in 0 .. MaxShift, dy in 0 .. 1
MaxShift == 1

Triangles2 ==
    {<<Add(t[1], Vec(dx, dy, h)), Add(t[2], Vec(dx, dy, h)), Add(t[3], Vec(dx, dy, h))>> :
        t \in Shapes2, dx \in 0 .. MaxShift, dy \in 0 .. 1, h \in 0 .. MaxLift}

VARIABLES
    op,         \* the function called, "idle" between calls
    args,       \* its arguments
    ret,        \* its result
    pc,         \* triangles_intersection: "cast", "clip", "done"
    parallel,   \* whether the feature "parallel" is on
    normals,    \* <<n1, n2>>
    castSlots,  \* the results of the tasks of the first pass, by edge
    castOrder,  \* the edges of the first pass in the order their tasks finished
    contacts,   \* the collected contacts
    segment,    \* the deduplicated contacts: <<sb, se>> when there are two
    no,         \* the clipping direction
    clipSlots,  \* the results of the tasks of the second pass, by edge
    clipOrder,  \* the edges of the second pass in the order their tasks finished
    clipped     \* the collected clip points

callVars == <<op, args, ret>>

triVars ==
    <<pc, parallel, normals, castSlots, castOrder, contacts, segment, no, clipSlots,
      clipOrder, clipped>>

vars == <<callVars, triVars>>

TriIdle ==
    /\ pc = "idle"
    /\ parallel = FALSE
    /\ normals = <<>>
    /\ castSlots = <<>>
    /\ castOrder = <<>>
    /\ contacts = <<>>
    /\ segment = <<>>
    /\ no = <<>>
    /\ clipSlots = <<>>
    /\ clipOrder = <<>>
    /\ clipped = <<>>

Init ==
    /\ op = "idle"
    /\ args = <<>>
    /\ ret = <<>>
    /\ TriIdle

CallRaycastPlane ==
    /\ op = "idle"
    /\ \E from \in PointsXZ, to \in PointsXZ, origin \in {Vec(0, 0, 0), Vec(0, 0, 1)},
          normal \in UnitNormals :
           /\ op' = "raycast_plane"
           /\ args' = <<from, to, origin, normal>>
           /\ ret' = raycast_plane(from, to, origin, normal)
           /\ UNCHANGED triVars

CallRaycastLine ==
    /\ op = "idle"
    /\ \E from \in PointsZ, to \in PointsXZ, a \in PointsX, b \in PointsX,
          normal \in {Vec(0, 0, 1), Vec(1, 0, 0)} :
           /\ op' = "raycast_line"
           /\ args' = <<from, to, a, b, normal>>
           /\ ret' = raycast_line(from, to, a, b, normal)
           /\ UNCHANGED triVars

CallRaycastLineExact ==
    /\ op = "idle"
    /\ \E from \in PointsZ, to \in PointsXZ, a \in PointsX, b \in PointsX,
          normal \in {Vec(0, 0, 1), Vec(1, 0, 0)} :
           /\ op' = "raycast_line_exact"
           /\ args' = <<from, to, a, b, normal>>
           /\ ret' = raycast_line_exact(from, to, a, b, normal)
           /\ UNCHANGED triVars

CallIsLineBetweenPoints ==
    /\ op = "idle"
    /\ \E from \in {Vec(0, 0, 0)}, to \in PointsX \cup {Vec(0, 1, 0), Vec(1, 1, 0)},
          a \in PointsXY, b \in PointsXY :
           /\ op' = "is_line_between_points"
           /\ args' = <<from, to, a, b, Vec(0, 0, 1)>>
           /\ ret' = is_line_between_points(from, to, a, b, Vec(0, 0, 1))
           /\ UNCHANGED triVars

CallProjectOnPlane ==
    /\ op = "idle"
    /\ \E p \in PointsXYZ, origin \in {Vec(0, 0, 0), Vec(0, 0, 1)},
          normal \in UnitNormals \cup {Vec(0, 0, 2), Vec(3, 0, 4), Vec(0, -3, 0)} :
           /\ op' = "project_on_plane"
           /\ args' = <<p, origin, normal>>
           /\ ret' = project_on_plane(p, origin, normal)
           /\ UNCHANGED triVars

\* the triangles a, b, c of raycast_triangle: every triple of TriangleVertices, so
\* both windings and the degenerate triangles are among them
TriangleVertices ==
    {Vec(x, 0, 0) : x \in 0 .. MaxCoord} \cup {Vec(0, y, 0) : y \in 1 .. MaxCoord}
        \cup {Vec(0, 0, 1)}

\* the segments from, to of raycast_triangle: upwards, downwards and short of the
\* plane z = 0, over the points (x, y) of SegmentFeet
SegmentFeet == {Num(0), <<1, 4>>, <<9, 10>>}

CallRaycastTriangle ==
    /\ op = "idle"
    /\ \E a \in TriangleVertices, b \in TriangleVertices, c \in TriangleVertices,
          x \in SegmentFeet, y \in SegmentFeet,
          zs \in {<<-1, 1>>, <<1, -1>>, <<1, 2>>, <<-1, 0>>} :
           LET from == new(x, y, Num(zs[1]))
               to == new(x, y, Num(zs[2]))
           IN  /\ op' = "raycast_triangle"
               /\ args' = <<from, to, a, b, c>>
               /\ ret' = raycast_triangle(from, to, a, b, c)
               /\ UNCHANGED triVars

\* plane normals of planes_intersection: axes, diagonals (ties between the
\* components of the cross product), a rational unit normal, a short normal
PlaneNormals ==
    {Vec(1, 0, 0), Vec(0, 1, 0), Vec(0, 0, 1), Vec(0, 0, -1), Vec(1, 1, 0), Vec(0, 1, 1),
     Vec(1, 1, 1), Vec(2, 0, -1), new(<<3, 5>>, Num(0), <<4, 5>>), new(<<1, 1000>>, Num(0), Num(0)),
     new(<<1, 2000>>, Num(0), Num(0))}

CallPlanesIntersection ==
    /\ op = "idle"
    /\ \E p1 \in {Vec(0, 0, 0), Vec(1, 2, MaxCoord)}, n1 \in PlaneNormals,
          p2 \in {Vec(0, 0, 0), Vec(0, MaxCoord, -1)}, n2 \in PlaneNormals :
           /\ op' = "planes_intersection"
           /\ args' = <<p1, n1, p2, n2>>
           /\ ret' = planes_intersection(p1, n1, p2, n2)
           /\ UNCHANGED triVars

Range(q) == {q[k] : k \in 1 .. Len(q)}

CallTrianglesIntersection ==
    /\ op = "idle"
    /\ \E t1 \in Triangles1, t2 \in Triangles2, par \in BOOLEAN :
           /\ op' = "triangles_intersection"
           /\ args' = <<t1[1], t1[2], t1[3], t2[1], t2[2], t2[3]>>
           /\ parallel' = par
           /\ normals' = <<TriangleNormal(t1[1], t1[2], t1[3]),
                           TriangleNormal(t2[1], t2[2], t2[3])>>
    /\ pc' = "cast"
    /\ castSlots' = <<None, None, None>>
    /\ castOrder' = <<>>
    /\ UNCHANGED <<ret, contacts, segment, no, clipSlots, clipOrder, clipped>>

\* a task of the first pass finishes: any task with the feature "parallel",
\* the next edge without it
CastEdge ==
    /\ pc = "cast"
    /\ \E i \in (1 .. 3) \ Range(castOrder) :
           /\ parallel \/ i = Len(castOrder) + 1
           /\ castSlots' = [castSlots EXCEPT
                  ![i] = CastTask(args[1], normals[1], CastEdges(args[4], args[5], args[6]), i)]
           /\ castOrder' = Append(castOrder, i)
    /\ UNCHANGED <<callVars, pc, parallel, normals, contacts, segment, no, clipSlots,
                   clipOrder, clipped>>

\* the first pass is collected; deduplication, the two early returns, and the
\* clipping direction
CollectContacts ==
    /\ pc = "cast"
    /\ Len(castOrder) = 3
    /\ contacts' = Collect(castSlots, castOrder)
    /\ castSlots' = <<>>
    /\ castOrder' = <<>>
    /\ segment' = Deduplicate(contacts')
    /\ IF Len(segment') = 2
          /\ does_line_crosses_triangle(segment'[1], segment'[2], args[1], args[2], args[3])
       THEN /\ no' = ClipDirection(args[1], normals[1], normals[2])
            /\ pc' = "clip"
            /\ clipSlots' = <<None, None, None>>
            /\ ret' = ret
       ELSE /\ ret' = None
            /\ pc' = "done"
            /\ UNCHANGED <<no, clipSlots>>
    /\ UNCHANGED <<op, args, parallel, normals, clipOrder, clipped>>

\* a task of the second pass finishes
ClipEdge ==
    /\ pc = "clip"
    /\ \E i \in (1 .. 3) \ Range(clipOrder) :
           /\ parallel \/ i = Len(clipOrder) + 1
           /\ clipSlots' = [clipSlots EXCEPT
                  ![i] = ClipTask(segment[1], segment[2], no,
                                  ClipEdges(args[1], args[2], args[3]), i)]
           /\ clipOrder' = Append(clipOrder, i)
    /\ UNCHANGED <<callVars, pc, parallel, normals, castSlots, castOrder, contacts, segment,
                   no, clipped>>

\* the second pass is collected, resolved into the two ends and oriented
Finish ==
    /\ pc = "clip"
    /\ Len(clipOrder) = 3
    /\ clipped' = Collect(clipSlots, clipOrder)
    /\ ret' = Orient(Resolve(clipped', segment[1], segment[2], no, args[1], args[2],
                             args[3], normals[1]))
    /\ pc' = "done"
    /\ UNCHANGED <<op, args, parallel, normals, castSlots, castOrder, contacts, segment, no,
                   clipSlots, clipOrder>>

Return ==
    /\ op # "idle"
    /\ op = "triangles_intersection" => pc = "done"
    /\ op' = "idle"
    /\ args' = <<>>
    /\ ret' = <<>>
    /\ pc' = "idle"
    /\ parallel' = FALSE
    /\ normals' = <<>>
    /\ castSlots' = <<>>
    /\ castOrder' = <<>>
    /\ contacts' = <<>>
    /\ segment' = <<>>
    /\ no' = <<>>
    /\ clipSlots' = <<>>
    /\ clipOrder' = <<>>
    /\ clipped' = <<>>

\* the calls of the functions that run in one step
Next ==
    \/ CallRaycastPlane
    \/ CallRaycastLine
    \/ CallRaycastLineExact
    \/ CallIsLineBetweenPoints
    \/ CallProjectOnPlane
    \/ CallRaycastTriangle
    \/ CallPlanesIntersection
    \/ Return

Spec == Init /\ [][Next]_vars

\* the calls of triangles_intersection
TriNext ==
    \/ CallTrianglesIntersection
    \/ CastEdge
    \/ CollectContacts
    \/ ClipEdge
    \/ Finish
    \/ Return

TriSpec == Init /\ [][TriNext]_vars

(***************************************************************************)
(* Geometry the properties are stated in: exact, and without the           *)
(* normalisations and the zero threshold of the source.                    *)
(***************************************************************************)
Zero3 == Vec(0, 0, 0)

\* p lies on the segment [a, b], its ends included
OnSegment(p, a, b) ==
    /\ cross(Sub(p, a), Sub(b, a)) = Zero3
    /\ SGe(dot(Sub(p, a), Sub(b, a)), Num(0))
    /\ SLe(dot(Sub(p, a), Sub(b, a)), sqr_magnitude(Sub(b, a)))

\* p lies on the plane through origin perpendicular to normal
OnPlane(p, origin, normal) == dot(normal, Sub(p, origin)) = Num(0)

\* the segment [from, to] is not parallel to the plane and meets it
SegmentCrossesPlane(from, to, origin, normal) ==
    LET dn == dot(normal, Sub(to, from))
        s == SDiv(dot(normal, Sub(origin, from)), dn)
    IN  dn # Num(0) /\ SGe(s, Num(0)) /\ SLe(s, Num(1))

\* C3: raycast_plane with a unit normal returns a point exactly when
\* |normal . dir| > zero threshold and 0 <= t <= |to - from|, which is exactly
\* when the segment is not parallel to the plane and meets it; it returns
\* nothing for a zero-length segment; a returned point is from + dir * t, on
\* the segment [from, to] and on the plane; the vertical segment through the
\* origin against the plane z = 0 gives the origin.
C3_RaycastPlane ==
    op = "raycast_plane" =>
        LET from == args[1]
            to == args[2]
            origin == args[3]
            normal == args[4]
            dir == normalize(Sub(to, from))
            denom == dot(normal, dir)
            t == SDiv(dot(Sub(origin, from), normal), denom)
        IN  /\ IsSome(ret) <=> /\ SGt(SAbs(denom), ZERO_TRESHOLD)
                               /\ SGe(t, Num(0))
                               /\ SLe(t, magnitude(Sub(to, from)))
            /\ IsSome(ret) <=> SegmentCrossesPlane(from, to, origin, normal)
            /\ from = to => ret = None
            /\ IsSome(ret) => /\ ret[1] = Add(from, MulScalar(dir, t))
                              /\ OnSegment(ret[1], from, to)
                              /\ OnPlane(ret[1], origin, normal)
            /\ args = <<Vec(0, 0, -1), Vec(0, 0, 1), Vec(0, 0, 0), Vec(0, 0, 1)>>
                   => ret = Some(Vec(0, 0, 0))

\* a slanted segment crosses a slanted plane strictly between its ends
C3_Witness ==
    /\ op = "raycast_plane"
    /\ IsSome(ret)
    /\ args[4] = new(<<3, 5>>, Num(0), <<4, 5>>)
    /\ ret[1] # args[1]
    /\ ret[1] # args[2]
    /\ args[1][1] # args[2][1]

\* C1 as stated: raycast_line returns a point for every input, on [a, b]
C1_AlwaysAPoint ==
    op = "raycast_line" => IsSome(ret) /\ OnSegment(ret[1], args[3], args[4])

\* C1 amended: raycast_line returns a point exactly when the segment
\* [from, to] crosses the plane through a perpendicular to normal, and
\* nothing otherwise; a returned point lies on the segment [a, b]
C1_PointWhenPlaneHit ==
    op = "raycast_line" =>
        /\ IsSome(ret) <=> SegmentCrossesPlane(args[1], args[2], args[3], args[5])
        /\ IsSome(ret) => OnSegment(ret[1], args[3], args[4])

\* the plane is hit beyond b, and the point returned is the end b
C1_Witness ==
    /\ op = "raycast_line"
    /\ IsSome(ret)
    /\ args[3] # args[4]
    /\ ret[1] = args[4]
    /\ SGt(project(raycast_plane(args[1], args[2], args[3], args[5])[1], args[3], args[4]),
           Num(1))

\* C2: is_line_between_points is true exactly when a and b are on strictly
\* opposite sides of the line through from and to: false when they are on
\* the same side, false when either lies on the line
C2_StrictlyOppositeSides ==
    op = "is_line_between_points" =>
        LET n == cross(Sub(args[2], args[1]), args[5])
            da == dot(n, Sub(args[3], args[1]))
            db == dot(n, Sub(args[4], args[1]))
        IN  ret <=> \/ SLt(da, Num(0)) /\ SGt(db, Num(0))
                    \/ SGt(da, Num(0)) /\ SLt(db, Num(0))

\* C4: project_on_plane returns the orthogonal projection onto the plane for
\* every nonzero normal: the result is on the plane and its offset from the
\* point is parallel to the normal
C4_OrthogonalProjection ==
    (op = "project_on_plane" /\ args[3] # Zero3) =>
        /\ OnPlane(ret, args[2], args[3])
        /\ cross(Sub(args[1], ret), args[3]) = Zero3

\* a, b, c are collinear or coincide
Degenerate(a, b, c) == cross(Sub(b, a), Sub(c, a)) = Zero3

\* p, a point of the plane of the triangle a, b, c, is inside the triangle or
\* on its boundary
InsideTriangle(p, a, b, c) ==
    LET n == cross(Sub(b, a), Sub(c, a))
    IN  /\ SGe(dot(cross(Sub(b, a), Sub(p, a)), n), Num(0))
        /\ SGe(dot(cross(Sub(c, b), Sub(p, b)), n), Num(0))
        /\ SGe(dot(cross(Sub(a, c), Sub(p, c)), n), Num(0))

\* the point of the segment [from, to] on the plane through origin
CrossingPoint(from, to, origin, normal) ==
    unproject(from, to, SDiv(dot(normal, Sub(origin, from)), dot(normal, Sub(to, from))))

\* C6: raycast_triangle returns the contact point exactly when the segment
\* hits the plane of the triangle and the contact is inside the triangle
\* (boundary included), and nothing otherwise; the outcome is the same for
\* every order of a, b, c; a degenerate triangle yields nothing; the
\* vertical segment at x = y = 1/4 hits (0,0,0), (1,0,0), (0,1,0) at z = 0
\* and the one at x = y = 9/10 misses it.
C6_RaycastTriangle ==
    op = "raycast_triangle" =>
        LET from == args[1]
            to == args[2]
            a == args[3]
            b == args[4]
            c == args[5]
            n == cross(Sub(b, a), Sub(c, a))
            hits == /\ ~Degenerate(a, b, c)
                    /\ SegmentCrossesPlane(from, to, a, n)
                    /\ InsideTriangle(CrossingPoint(from, to, a, n), a, b, c)
            unit == normalize(cross(normalize(Sub(b, a)), normalize(Sub(c, b))))
            hit == raycast_plane(from, to, a, unit)
        IN  /\ IsSome(ret) <=> hits
            /\ IsSome(ret) => ret[1] = CrossingPoint(from, to, a, n) /\ ret = hit
            /\ IsSome(ret) <=> /\ IsSome(hit)
                               /\ is_above_plane(hit[1], a, Neg(cross(normalize(Sub(b, a)), unit)))
                               /\ is_above_plane(hit[1], b, Neg(cross(normalize(Sub(c, b)), unit)))
                               /\ is_above_plane(hit[1], c, Neg(cross(normalize(Sub(a, c)), unit)))
            /\ ret = raycast_triangle(from, to, a, c, b)
            /\ ret = raycast_triangle(from, to, b, a, c)
            /\ ret = raycast_triangle(from, to, b, c, a)
            /\ Degenerate(a, b, c) => ret = None
            /\ (<<a, b, c>> = <<Vec(0, 0, 0), Vec(1, 0, 0), Vec(0, 1, 0)>> /\ from[3] = Num(-1)
                    /\ to[3] = Num(1)) =>
                   /\ (from[1] = <<1, 4>> /\ from[2] = <<1, 4>>)
                          => (IsSome(ret) /\ ret[1][3] = Num(0))
                   /\ (from[1] = <<9, 10>> /\ from[2] = <<9, 10>>) => ret = None

\* the example of the claim: the segment at x = y = 1/4 hits the triangle
C6_Witness ==
    /\ op = "raycast_triangle"
    /\ args = <<new(<<1, 4>>, <<1, 4>>, Num(-1)), new(<<1, 4>>, <<1, 4>>, Num(1)),
                Vec(0, 0, 0), Vec(1, 0, 0), Vec(0, 1, 0)>>
    /\ ret = Some(new(<<1, 4>>, <<1, 4>>, Num(0)))

\* whether sqrt is exact at a
ExactSqrt(a) == ISqrt(a[1] * a[2]) * ISqrt(a[1] * a[2]) = a[1] * a[2]

\* C7: planes_intersection returns nothing exactly when |n1 x n2|^2 is below
\* the zero threshold; otherwise it returns (p, d) with p on both planes and
\* d the normalized n1 x n2 (parallel to it, of the same sense, of length 1
\* where the length of n1 x n2 is rational), and the component of n1 x n2 it
\* divides by is at least as large in absolute value as the other two, and
\* is not zero.
C7_PlanesIntersection ==
    op = "planes_intersection" =>
        LET p1 == args[1]
            n1 == args[2]
            p2 == args[3]
            n2 == args[4]
            u == cross(n1, n2)
            mc == DominantAxis(abs(u))
        IN  /\ ret = None <=> SLt(sqr_magnitude(u), ZERO_TRESHOLD)
            /\ IsSome(ret) =>
                   LET p == ret[1][1]
                       d == ret[1][2]
                   IN  /\ OnPlane(p, p1, n1)
                       /\ OnPlane(p, p2, n2)
                       /\ cross(d, u) = Zero3
                       /\ SGt(dot(d, u), Num(0))
                       /\ ExactSqrt(sqr_magnitude(u)) => sqr_magnitude(d) = Num(1)
                       /\ \A k \in 1 .. 3 : SGe(SAbs(u[mc]), SAbs(u[k]))
                       /\ u[mc] # Num(0)
                       /\ p[mc] = Num(0)

\* two components of n1 x n2 tie for the largest, the planes are not through
\* the origin, and a line is returned
C7_Witness ==
    /\ op = "planes_intersection"
    /\ IsSome(ret)
    /\ args[1] # Zero3
    /\ args[3] # Zero3
    /\ LET u == abs(cross(args[2], args[4]))
       IN  u[2] = u[3] /\ SGt(u[2], u[1])


(***************************************************************************)
(* triangles_intersection                                                  *)
(***************************************************************************)
Returned == op = "triangles_intersection" /\ pc = "done"

\* the two ends (begin, end) of a result
Ends(r) == {r[1][1], r[1][2]}

\* C5: in every result, an end with a connection marker carries (0,1), (1,2)
\* or (2,0) and its point lies on that edge of triangle 1, ends included; an
\* end without a marker is one of the two deduplicated contacts
C5_MarkedEndsOnEdges ==
    (Returned /\ IsSome(ret)) =>
        \A e \in Ends(ret) :
            IF IsSome(e[2])
            THEN /\ e[2][1] \in {<<0, 1>>, <<1, 2>>, <<2, 0>>}
                 /\ OnSegment(e[1], args[e[2][1][1] + 1], args[e[2][1][2] + 1])
            ELSE e[1] \in Range(segment)

\* a result with a marked end strictly inside an edge and an unmarked end
C5_Witness ==
    /\ Returned
    /\ IsSome(ret)
    /\ \E e \in Ends(ret) : IsSome(e[2]) /\ e[1] \notin {args[1], args[2], args[3]}
    /\ \E e \in Ends(ret) : ~IsSome(e[2])
    /\ Len(contacts) = 3

\* C8: the clipping direction is perpendicular to the normal of triangle 1
C8_ClipDirectionInPlane ==
    (op = "triangles_intersection" /\ no # <<>>) => dot(no, normals[1]) = Num(0)

\* C9: the second pass yields at most two clip points, and a result with two
\* unmarked ends comes from no clip point at all
C9_AtMostTwoClipPoints ==
    Returned =>
        /\ Len(clipped) <= 2
        /\ (IsSome(ret) /\ \A e \in Ends(ret) : ~IsSome(e[2])) => Len(clipped) = 0

RECURSIVE InOrderFrom(_, _)
InOrderFrom(results, i) ==
    IF i > Len(results) THEN <<>>
    ELSE (IF IsSome(results[i]) THEN <<results[i][1]>> ELSE <<>>) \o InOrderFrom(results, i + 1)

\* into_iter().filter_map(..).collect(): the items one after the other
InOrder(results) == InOrderFrom(results, 1)

=============================================================================
